---- MODULE Spec2Model ----
(***************************************************************************)
(* A model of the command-line currency converter (package main):          *)
(* loadConfig, main's argument parsing and conversion loop, formatTimeAgo, *)
(* saveToHistory and showHistory.                                          *)
(*                                                                         *)
(* Strings are sequences of symbols.  A symbol is one character (a letter  *)
(* in either case, "," or " ") or an indivisible word standing for a fixed *)
(* group of characters ("--json", "5", "nan", ...).  float64 values are    *)
(* records [cls, v]: a finite value v in 0..MaxFloat, +Inf, or NaN.        *)
(***************************************************************************)
EXTENDS Integers, Sequences, FiniteSets, TLC

VARIABLES
    configFile,     \* content of config.json on disk
    historyFile,    \* content of history.json on disk
    history0,       \* history.json as it was when the run started
    osArgs,         \* os.Args[1:] of the run
    stdin,          \* the words the user types at the prompts, in order
    pc,             \* position of main: "start", "fetch", "loop", "exit"
    cfg,            \* main's cfg
    jsonOutput,     \* main's jsonOutput
    csvOutput,      \* main's csvOutput
    args,           \* main's args after the flags are stripped
    fromCurrency,   \* main's fromCurrency
    toCurrencies,   \* main's toCurrencies
    amount,         \* main's amount
    rates,          \* main's rates (the fetched snapshot)
    idx,            \* index of the next element of toCurrencies to visit
    stdout,         \* what the run has printed, in order
    exitCode,       \* the process's exit code once pc = "exit"
    fetches,        \* number of getExchangeRates calls made
    clock,          \* the wall clock (time.Now()), a logical counter
    saved,          \* records handed to saveToHistory calls that wrote the file
    calls,          \* number of saveToHistory calls made
    ioFailed,       \* TRUE once a saveToHistory call did not rewrite the file
    procs,          \* the two concurrent saveToHistory invocations
    duration,       \* the argument of formatTimeAgo, in whole minutes
    timeAgo         \* the result of formatTimeAgo(duration)

vars == <<configFile, historyFile, history0, osArgs, stdin, pc, cfg, jsonOutput,
          csvOutput, args, fromCurrency, toCurrencies, amount, rates, idx,
          stdout, exitCode, fetches, clock, saved, calls, ioFailed, procs,
          duration, timeAgo>>

----------------------------------------------------------------------------
(* Bounds of the model. *)

\* The largest finite float64 of the model (math.MaxFloat64).
MaxFloat == 12

\* The longest argument list a run of SpecArgs is started with.
MaxArgs == 4

\* The number of saveToHistory calls a behaviour of SpecHist makes.
MaxCalls == 3

\* The longest duration given to formatTimeAgo, in minutes, above 48 hours.
MaxExtraMinutes == 130

----------------------------------------------------------------------------
(* Strings. *)

Str(w) == <<w>>

UpperSym(c) ==
    CASE c = "u" -> "U" [] c = "r" -> "R" [] c = "e" -> "E" [] c = "x" -> "X"
      [] c = "json" -> "JSON" [] c = "csv" -> "CSV" [] c = "text" -> "TEXT"
      [] c = "xml" -> "XML" [] c = "nan" -> "NAN"
      [] c = "--history" -> "--HISTORY" [] c = "1e308" -> "1E308"
      [] OTHER -> c

LowerSym(c) ==
    CASE c = "U" -> "u" [] c = "R" -> "r" [] c = "E" -> "e" [] c = "X" -> "x"
      [] c = "JSON" -> "json" [] c = "CSV" -> "csv" [] c = "TEXT" -> "text"
      [] c = "XML" -> "xml" [] c = "NAN" -> "nan"
      [] c = "--HISTORY" -> "--history" [] c = "1E308" -> "1e308"
      [] OTHER -> c

\* strings.ToUpper
ToUpper(s) == [i \in DOMAIN s |-> UpperSym(s[i])]

\* strings.ToLower
ToLower(s) == [i \in DOMAIN s |-> LowerSym(s[i])]

RECURSIVE TrimLeft(_)
TrimLeft(s) == IF s # <<>> /\ Head(s) = " " THEN TrimLeft(Tail(s)) ELSE s

RECURSIVE TrimRight(_)
TrimRight(s) ==
    IF s # <<>> /\ s[Len(s)] = " " THEN TrimRight(SubSeq(s, 1, Len(s) - 1)) ELSE s

\* strings.TrimSpace
TrimSpace(s) == TrimRight(TrimLeft(s))

\* strings.Split(s, ","): the pieces between the commas, empty ones included.
RECURSIVE SplitFrom(_, _, _)
SplitFrom(s, i, cur) ==
    IF i > Len(s) THEN <<cur>>
    ELSE IF s[i] = "," THEN <<cur>> \o SplitFrom(s, i + 1, <<>>)
    ELSE SplitFrom(s, i + 1, Append(cur, s[i]))

Split(s) == SplitFrom(s, 1, <<>>)

----------------------------------------------------------------------------
(* float64. *)

Fin(n) == [cls |-> "fin", v |-> n]
Inf == [cls |-> "inf", v |-> 0]
NaN == [cls |-> "nan", v |-> 0]
IsFinite(x) == x.cls = "fin"

\* amount * rate in float64: a product beyond the largest finite value is +Inf.
Mul(a, r) ==
    IF a.cls = "nan" \/ r.cls = "nan" THEN NaN
    ELSE IF a.cls = "inf" \/ r.cls = "inf"
         THEN (IF (a.cls = "fin" /\ a.v = 0) \/ (r.cls = "fin" /\ r.v = 0)
               THEN NaN ELSE Inf)
    ELSE IF a.v * r.v > MaxFloat THEN Inf
    ELSE Fin(a.v * r.v)

\* strconv.ParseFloat(s, 64): "nan" and "inf" are accepted in any case, a
\* value out of range is returned as Inf together with an error.
ParseFloat(s) ==
    CASE s = Str("5") -> [err |-> FALSE, val |-> Fin(5)]
      [] s = Str("0") -> [err |-> FALSE, val |-> Fin(0)]
      [] s = Str("1e308") -> [err |-> FALSE, val |-> Fin(MaxFloat)]
      [] s = Str("nan") \/ s = Str("NAN") -> [err |-> FALSE, val |-> NaN]
      [] s = Str("1e309") -> [err |-> TRUE, val |-> Inf]
      [] OTHER -> [err |-> TRUE, val |-> Fin(0)]

----------------------------------------------------------------------------
(* JSON values as encoding/json reads and writes them.  JTime(t) is the    *)
(* RFC 3339 string of the instant t.                                       *)

JNone == [j |-> "none", s |-> <<>>, n |-> 0]
JStr(s) == [j |-> "str", s |-> s, n |-> 0]
JNum(n) == [j |-> "num", s |-> <<>>, n |-> n]
JTime(t) == [j |-> "str", s |-> Str("T"), n |-> t]

\* os.ReadFile: fails on a missing or unreadable file.
ReadFileErr(file) == file.kind \in {"absent", "unreadable"}

----------------------------------------------------------------------------
(* Config. *)

DefaultConfig == [DefaultFrom |-> Str("U"), DefaultTo |-> Str("R"),
                  OutputFormat |-> Str("text")]

\* json.Unmarshal of a string field: a JSON string is stored, a missing key
\* leaves the field alone, a value of another type is skipped (and reported
\* by the error that loadConfig drops).
StoreString(old, jv) == IF jv.j = "str" THEN jv.s ELSE old

\* json.Unmarshal(data, &cfg): a syntax error or a document that is not an
\* object leaves cfg alone; an object is decoded field by field.
UnmarshalConfig(file, c) ==
    IF file.kind # "object" THEN c
    ELSE [DefaultFrom |-> StoreString(c.DefaultFrom, file.f.default_from),
          DefaultTo |-> StoreString(c.DefaultTo, file.f.default_to),
          OutputFormat |-> StoreString(c.OutputFormat, file.f.output_format)]

Normalize(c) ==
    [DefaultFrom |-> ToUpper(c.DefaultFrom), DefaultTo |-> ToUpper(c.DefaultTo),
     OutputFormat |-> ToLower(c.OutputFormat)]

loadConfig(file) ==
    IF ReadFileErr(file) THEN DefaultConfig
    ELSE Normalize(UnmarshalConfig(file, DefaultConfig))

----------------------------------------------------------------------------
(* Conversion records and the history file. *)

ConversionRecord(ts, from, to, amt, res, rate, upd) ==
    [Timestamp |-> ts, FromCurrency |-> from, ToCurrency |-> to, Amount |-> amt,
     Result |-> res, ExchangeRate |-> rate, RateUpdateTime |-> upd]

ZeroRecord == ConversionRecord(0, <<>>, <<>>, Fin(0), Fin(0), Fin(0), 0)

\* json.Unmarshal of a float64 field: a number in range is stored, anything
\* else is skipped.
StoreFloat(old, jv) ==
    IF jv.j = "num" /\ jv.n <= MaxFloat THEN Fin(jv.n) ELSE old

\* Time.UnmarshalJSON accepts an RFC 3339 string only; its error aborts the
\* whole json.Unmarshal.
TimeOk(jv) == jv.j = "none" \/ (jv.j = "str" /\ jv.s = Str("T"))
StoreTime(old, jv) == IF jv.j = "str" /\ jv.s = Str("T") THEN jv.n ELSE old

\* One array element decoded into a fresh ConversionRecord, its keys taken in
\* the order of the struct's fields: rec is what the element holds when the
\* decoding of it ends, soft tells that a field was skipped, hard that a time
\* field stopped the decoder.
DecodeElem(e) ==
    LET z == ZeroRecord IN
    IF ~TimeOk(e.timestamp) THEN [rec |-> z, soft |-> FALSE, hard |-> TRUE]
    ELSE [rec |-> ConversionRecord(
                     StoreTime(z.Timestamp, e.timestamp),
                     StoreString(z.FromCurrency, e.from_currency),
                     StoreString(z.ToCurrency, e.to_currency),
                     StoreFloat(z.Amount, e.amount),
                     StoreFloat(z.Result, e.result),
                     StoreFloat(z.ExchangeRate, e.exchange_rate),
                     StoreTime(z.RateUpdateTime, e.rate_update_time)),
          soft |-> \/ e.from_currency.j = "num"
                   \/ e.to_currency.j = "num"
                   \/ \E jv \in {e.amount, e.result, e.exchange_rate} :
                         jv.j = "str" \/ (jv.j = "num" /\ jv.n > MaxFloat),
          hard |-> ~TimeOk(e.rate_update_time)]

RECURSIVE DecodeFrom(_, _, _, _)
DecodeFrom(elems, i, acc, soft) ==
    IF i > Len(elems) THEN [val |-> acc, err |-> soft]
    ELSE LET d == DecodeElem(elems[i]) IN
         IF d.hard THEN [val |-> Append(acc, d.rec), err |-> TRUE]
         ELSE DecodeFrom(elems, i + 1, Append(acc, d.rec), soft \/ d.soft)

\* json.Unmarshal(data, &history) on a nil slice: val is the slice afterwards,
\* err whether an error is returned.  A syntax error is found before anything
\* is stored; a document that is not an array stores nothing.
UnmarshalHistory(file) ==
    IF file.kind = "array" THEN DecodeFrom(file.elems, 1, <<>>, FALSE)
    ELSE [val |-> <<>>, err |-> TRUE]

EncodeRecord(r) ==
    [timestamp |-> JTime(r.Timestamp), from_currency |-> JStr(r.FromCurrency),
     to_currency |-> JStr(r.ToCurrency), amount |-> JNum(r.Amount.v),
     result |-> JNum(r.Result.v), exchange_rate |-> JNum(r.ExchangeRate.v),
     rate_update_time |-> JTime(r.RateUpdateTime)]

\* json.MarshalIndent(history): NaN and the infinities are unsupported values.
MarshalErr(h) ==
    \E i \in DOMAIN h :
        ~IsFinite(h[i].Amount) \/ ~IsFinite(h[i].Result) \/ ~IsFinite(h[i].ExchangeRate)

MarshalHistory(h) == [kind |-> "array", elems |-> [i \in DOMAIN h |-> EncodeRecord(h[i])]]

AbsentFile == [kind |-> "absent", elems |-> <<>>]
\* A file of zero bytes: "unexpected end of JSON input".
EmptyFile == [kind |-> "empty", elems |-> <<>>]
TornFile == [kind |-> "syntax", elems |-> <<>>]

\* The outcomes of os.WriteFile, whose error saveToHistory drops: the file is
\* rewritten, or it cannot be opened and stays as it was, or it is truncated
\* and the write stops part way.
WriteOutcomes == {"ok", "fail", "torn"}

WriteFile(file, data, wr) ==
    CASE wr = "ok" -> data
      [] wr = "fail" -> file
      [] OTHER -> TornFile

\* The slice saveToHistory holds after reading the file.
ReadHistory(file) ==
    IF ReadFileErr(file) THEN <<>> ELSE UnmarshalHistory(file).val

\* A push at the front.
AppendRecordFront(h, record) == <<record>> \o h

\* history = append(history, record)
AppendRecord(h, record) == Append(h, record)

\* saveToHistory: the history file after the call.
saveToHistory(file, record, wr) ==
    LET h == AppendRecord(ReadHistory(file), record) IN
    IF MarshalErr(h) THEN file ELSE WriteFile(file, MarshalHistory(h), wr)

\* Whether a saveToHistory call rewrites the file with the history it built.
SaveWrites(record, wr) ==
    wr = "ok" /\ IsFinite(record.Amount) /\ IsFinite(record.Result)
              /\ IsFinite(record.ExchangeRate)

----------------------------------------------------------------------------
(* Output.  An event is one thing printed: k is its kind, fmt the rendering *)
(* ("text", "json", "csv"), msg the message of an error, code the currency  *)
(* an error names, rec the record shown.                                    *)

Ev(k, fmt, msg, code, rec) ==
    [k |-> k, fmt |-> fmt, msg |-> msg, code |-> code, rec |-> rec, n |-> 0]

\* outputError(message, asJSON)
outputError(msg, code, asJSON) ==
    Ev("error", IF asJSON THEN "json" ELSE "csv", msg, code, ZeroRecord)

\* color.Red(...) of an error
redError(msg, code) == Ev("error", "text", msg, code, ZeroRecord)

RECURSIVE ListReversed(_, _)
ListReversed(h, i) ==
    IF i < 1 THEN <<>>
    ELSE <<Ev("record", "text", "", <<>>, h[i])>> \o ListReversed(h, i - 1)

CountLine(n) == [Ev("count", "text", "", <<>>, ZeroRecord) EXCEPT !.n = n]

\* showHistory: what it prints.
showHistory(file) ==
    IF ReadFileErr(file) THEN <<redError("history missing", <<>>)>>
    ELSE LET u == UnmarshalHistory(file) IN
         IF u.err THEN <<redError("history unreadable", <<>>)>>
         ELSE IF Len(u.val) = 0 THEN <<Ev("notice", "text", "history empty", <<>>, ZeroRecord)>>
         ELSE <<Ev("header", "text", "history", <<>>, ZeroRecord)>>
              \o ListReversed(u.val, Len(u.val))
              \o <<CountLine(Len(u.val))>>

----------------------------------------------------------------------------
(* formatTimeAgo.  The duration is counted in whole minutes, so            *)
(* int(duration.Hours()) is d \div 60 and int(duration.Minutes()) % 60 is  *)
(* d % 60.  The result names the unit, the number printed and the word     *)
(* form chosen.  Durations are non-negative here; printResult passes       *)
(* time.Since(updateTime).                                                 *)

Ago(unit, n, form) == [unit |-> unit, n |-> n, form |-> form]

formatTimeAgoGE(d) ==
    LET hours == d \div 60
        minutes == d % 60
    IN  IF hours >= 24
        THEN LET days == hours \div 24
             IN  IF days = 1 THEN Ago("day", 1, "one") ELSE Ago("day", days, "few/many")
        ELSE IF hours > 0
        THEN IF hours = 1 THEN Ago("hour", 1, "one")
             ELSE IF hours < 5 THEN Ago("hour", hours, "few")
             ELSE Ago("hour", hours, "many")
        ELSE IF minutes > 0
        THEN IF minutes = 1 THEN Ago("minute", 1, "one")
             ELSE IF minutes < 5 THEN Ago("minute", minutes, "few")
             ELSE Ago("minute", minutes, "many")
        ELSE Ago("now", 0, "now")

formatTimeAgo(d) ==
    LET hours == d \div 60
        minutes == d % 60
    IN  IF hours > 24
        THEN LET days == hours \div 24
             IN  IF days = 1 THEN Ago("day", 1, "one") ELSE Ago("day", days, "few/many")
        ELSE IF hours > 0
        THEN IF hours = 1 THEN Ago("hour", 1, "one")
             ELSE IF hours < 5 THEN Ago("hour", hours, "few")
             ELSE Ago("hour", hours, "many")
        ELSE IF minutes > 0
        THEN IF minutes = 1 THEN Ago("minute", 1, "one")
             ELSE IF minutes < 5 THEN Ago("minute", minutes, "few")
             ELSE Ago("minute", minutes, "many")
        ELSE Ago("now", 0, "now")

\* The durations formatTimeAgo is applied to: 0 minutes up to some way past
\* 48 hours.
MaxMinutes == 48 * 60 + MaxExtraMinutes

----------------------------------------------------------------------------
(* main: arguments, flags and output mode. *)

FlagJSON == Str("--json")
FlagCSV == Str("--csv")
FlagHistory == Str("--history")

\* args with element i removed: append(args[:i], args[i+1:]...)
RemoveAt(a, i) == SubSeq(a, 1, i - 1) \o SubSeq(a, i + 1, Len(a))

\* A stripping loop without the i-- after a removal.
RECURSIVE StripFlagsNoStepBack(_, _, _, _)
StripFlagsNoStepBack(a, i, j, c) ==
    IF i > Len(a) THEN [args |-> a, json |-> j, csv |-> c]
    ELSE IF a[i] = FlagJSON THEN StripFlagsNoStepBack(RemoveAt(a, i), i + 1, TRUE, c)
    ELSE IF a[i] = FlagCSV THEN StripFlagsNoStepBack(RemoveAt(a, i), i + 1, j, TRUE)
    ELSE StripFlagsNoStepBack(a, i + 1, j, c)

\* The loop that strips --json and --csv: i is the (1-based) index the loop
\* is at, j and c the flags seen so far.  A removal is followed by i-- and
\* the loop's i++, so the same index is looked at again.
RECURSIVE StripFlagsFrom(_, _, _, _)
StripFlagsFrom(a, i, j, c) ==
    IF i > Len(a) THEN [args |-> a, json |-> j, csv |-> c]
    ELSE IF a[i] = FlagJSON THEN StripFlagsFrom(RemoveAt(a, i), i, TRUE, c)
    ELSE IF a[i] = FlagCSV THEN StripFlagsFrom(RemoveAt(a, i), i, j, TRUE)
    ELSE StripFlagsFrom(a, i + 1, j, c)

StripFlags(a) == StripFlagsFrom(a, 1, FALSE, FALSE)

\* The output format of the config is applied when no flag was given.
OutputMode(j, c, format) ==
    IF ~j /\ ~c
    THEN [json |-> format = Str("json"), csv |-> format = Str("csv")]
    ELSE [json |-> j, csv |-> c]

\* A rendering that looks at csvOutput first.
RenderFmtCSVFirst(j, c) == IF c THEN "csv" ELSE IF j THEN "json" ELSE "text"

\* The rendering of a result: the branch order of the loop's if/else if/else.
RenderFmt(j, c) == IF j THEN "json" ELSE IF c THEN "csv" ELSE "text"

\* An error reported by main: the structured payload in JSON or CSV mode,
\* red text otherwise.
ReportError(j, c, msg, code) ==
    IF j \/ c THEN outputError(msg, code, j) ELSE redError(msg, code)

\* getInput: one word read from the terminal, trimmed and upper-cased.
getInput(word) == ToUpper(TrimSpace(word))

\* rates.Rates[to]: a missing key reads as the zero value.
Lookup(m, to) == IF to \in DOMAIN m THEN m[to] ELSE Fin(0)

\* A convertCurrency that answers 0 for a currency it does not find.
convertCurrencyZero(amt, to, snapshot) ==
    [err |-> FALSE, val |-> Mul(amt, Lookup(snapshot.Rates, to))]

\* convertCurrency
convertCurrency(amt, to, snapshot) ==
    IF to \in DOMAIN snapshot.Rates
    THEN [err |-> FALSE, val |-> Mul(amt, snapshot.Rates[to])]
    ELSE [err |-> TRUE, val |-> Fin(0)]

NoRates == [Rates |-> <<>>, TimeLastUpdated |-> 0]

----------------------------------------------------------------------------
(* The inputs of a run. *)

U == Str("u")
ListRXE == <<"r", ",", " ", ",", "x", ",", "e">>
ListX == Str("x")
ListRR == <<"r", ",", "r">>

AmountWords == {Str("5"), Str("nan"), Str("1e308"), Str("u")}

\* Argument lists of Spec: the flags before or after the positional
\* arguments, and the --history command.
FlagLists == {<<>>, <<FlagJSON>>, <<FlagCSV>>, <<FlagJSON, FlagCSV>>, <<FlagCSV, FlagJSON>>}

Positionals ==
    {<<>>, <<U>>, <<U, ListRXE, Str("5"), Str("5")>>}
    \cup {<<U, t, a>> : t \in {ListRXE}, a \in AmountWords}
    \cup {<<U, t, Str("5")>> : t \in {ListX, ListRR}}

ArgLists ==
    {f \o p : f \in FlagLists, p \in Positionals}
    \cup {p \o f : f \in FlagLists, p \in Positionals}
    \cup {<<FlagHistory>>, <<FlagHistory, FlagJSON>>}

\* What the user types at the three prompts.
StdinLists ==
    {<<f, t, a>> : f \in {<<>>, Str("e")}, t \in {<<>>, <<"r", ",", "x">>},
                   a \in {Str("5"), Str("u"), Str("nan")}}

RatesOf(codes) ==
    [c \in codes |-> IF c = Str("R") THEN Fin(2) ELSE Fin(1)]

\* The snapshots a fetch can return.
Snapshots ==
    {[Rates |-> RatesOf(cs), TimeLastUpdated |-> 1] :
        cs \in {{}, {Str("R")}, {Str("R"), Str("E")}, {Str("R"), Str("E"), Str("X")}}}

GoodElem(ts, to) == EncodeRecord(ConversionRecord(ts, Str("U"), to, Fin(1), Fin(2), Fin(2), 1))

\* An element whose amount is a JSON string.
SoftBadElem(ts, to) == [GoodElem(ts, to) EXCEPT !.amount = JStr(Str("x"))]

\* An element whose timestamp is a JSON number.
HardBadElem(ts, to) == [GoodElem(ts, to) EXCEPT !.timestamp = JNum(7)]

ArrayFile(elems) == [kind |-> "array", elems |-> elems]

\* Contents of history.json a run can find.
HistoryFiles ==
    {AbsentFile, EmptyFile, [kind |-> "unreadable", elems |-> <<>>], TornFile,
     [kind |-> "notarray", elems |-> <<>>],
     ArrayFile(<<>>),
     ArrayFile(<<GoodElem(0, Str("R"))>>),
     ArrayFile(<<GoodElem(0, Str("R")), SoftBadElem(0, Str("E"))>>),
     ArrayFile(<<SoftBadElem(0, Str("E")), GoodElem(0, Str("R"))>>),
     ArrayFile(<<GoodElem(0, Str("R")), HardBadElem(0, Str("E")), GoodElem(0, Str("X"))>>)}

NoFields == [default_from |-> JNone, default_to |-> JNone, output_format |-> JNone]
ObjectFile(f) == [kind |-> "object", f |-> f]

\* Contents of config.json a run can find.
ConfigFiles ==
    {[kind |-> k, f |-> NoFields] : k \in {"absent", "unreadable", "syntax", "notobject"}}
    \cup {ObjectFile([default_from |-> df, default_to |-> dt, output_format |-> fmt]) :
            df \in {JNone, JStr(Str("e")), JNum(5)},
            dt \in {JNone, JStr(<<"e", ",", "r">>), JNum(5)},
            fmt \in {JNone, JStr(Str("JSON")), JStr(Str("csv")), JStr(Str("TEXT")),
                     JStr(Str("xml")), JNum(5)}}

----------------------------------------------------------------------------
(* main, from loadConfig to the split of the target list. *)

Banner == Ev("header", "text", "banner", <<>>, ZeroRecord)

\* What main has computed when it reaches the fetch, or when it exits before
\* it: file is config.json, a the arguments, in the words typed at the prompts.
Prelude(file, a, in) ==
    LET c == loadConfig(file)
        st == StripFlags(a)
        m == OutputMode(st.json, st.csv, c.OutputFormat)
        out0 == IF ~m.json /\ ~m.csv THEN <<Banner>> ELSE <<>>
        base == [cfg |-> c, json |-> m.json, csv |-> m.csv, args |-> st.args,
                 from |-> <<>>, toRaw |-> <<>>, amount |-> Fin(0), out |-> out0,
                 exit |-> FALSE]
    IN  IF Len(st.args) = 3
        THEN LET pf == ParseFloat(st.args[3])
             IN  [base EXCEPT !.from = ToUpper(st.args[1]),
                              !.toRaw = ToUpper(st.args[2]),
                              !.amount = pf.val,
                              !.exit = pf.err,
                              !.out = IF pf.err
                                      THEN Append(out0, ReportError(m.json, m.csv, "bad amount", <<>>))
                                      ELSE out0]
        ELSE IF Len(st.args) = 0
        THEN LET f == getInput(in[1])
                 t == getInput(in[2])
                 pf == ParseFloat(in[3])
             IN  [base EXCEPT !.from = IF f = <<>> THEN c.DefaultFrom ELSE f,
                              !.toRaw = IF t = <<>> THEN c.DefaultTo ELSE t,
                              !.amount = pf.val,
                              !.exit = pf.err,
                              !.out = IF pf.err
                                      THEN Append(out0, redError("bad amount", <<>>))
                                      ELSE out0]
        ELSE [base EXCEPT !.exit = TRUE,
                          !.out = Append(out0, ReportError(m.json, m.csv, "arg count", <<>>))]

\* main is started with the --history command: showHistory, then return.
HistoryCommand(a) ==
    /\ Len(a) >= 1 /\ a[1] = FlagHistory
    /\ osArgs' = a
    /\ stdout' = showHistory(historyFile)
    /\ pc' = "exit"
    /\ exitCode' = 0
    /\ UNCHANGED <<configFile, historyFile, history0, stdin, cfg, jsonOutput, csvOutput,
                   args, fromCurrency, toCurrencies, amount, rates, idx, fetches,
                   clock, saved, calls, ioFailed, procs, duration, timeAgo>>

\* main is started with anything else.
ConvertCommand(a, in) ==
    /\ ~(Len(a) >= 1 /\ a[1] = FlagHistory)
    /\ LET r == Prelude(configFile, a, in)
       IN  /\ osArgs' = a
           /\ stdin' = in
           /\ cfg' = r.cfg
           /\ jsonOutput' = r.json
           /\ csvOutput' = r.csv
           /\ args' = r.args
           /\ fromCurrency' = r.from
           /\ amount' = r.amount
           /\ stdout' = r.out
           /\ IF r.exit
              THEN /\ pc' = "exit"
                   /\ exitCode' = 1
                   /\ toCurrencies' = <<>>
              ELSE /\ pc' = "fetch"
                   /\ exitCode' = 0
                   /\ toCurrencies' = Split(r.toRaw)
    /\ UNCHANGED <<configFile, historyFile, history0, rates, idx, fetches, clock,
                   saved, calls, ioFailed, procs, duration, timeAgo>>

\* The words typed: three when the run prompts, none otherwise.
Typed(a) ==
    IF Len(StripFlags(a).args) = 0 /\ ~(Len(a) >= 1 /\ a[1] = FlagHistory)
    THEN StdinLists ELSE {<<>>}

Start(argSet) ==
    /\ pc = "start"
    /\ \E a \in argSet :
          \/ HistoryCommand(a)
          \/ \E in \in Typed(a) : ConvertCommand(a, in)

\* getExchangeRates fails: the error is reported and the process exits.
FetchFail ==
    /\ pc = "fetch"
    /\ fetches' = fetches + 1
    /\ stdout' = (IF ~jsonOutput /\ ~csvOutput
                  THEN Append(stdout, Ev("loading", "text", "", <<>>, ZeroRecord))
                  ELSE stdout)
                 \o <<ReportError(jsonOutput, csvOutput, "fetch", <<>>)>>
    /\ pc' = "exit"
    /\ exitCode' = 1
    /\ UNCHANGED <<configFile, historyFile, history0, osArgs, stdin, cfg, jsonOutput,
                   csvOutput, args, fromCurrency, toCurrencies, amount, rates, idx,
                   clock, saved, calls, ioFailed, procs, duration, timeAgo>>

\* getExchangeRates returns a snapshot.
FetchOk ==
    /\ pc = "fetch"
    /\ fetches' = fetches + 1
    /\ \E r \in Snapshots : rates' = r
    /\ stdout' = IF ~jsonOutput /\ ~csvOutput
                 THEN Append(stdout, Ev("loading", "text", "", <<>>, ZeroRecord))
                 ELSE stdout
    /\ pc' = "loop"
    /\ idx' = 1
    /\ UNCHANGED <<configFile, historyFile, history0, osArgs, stdin, cfg, jsonOutput,
                   csvOutput, args, fromCurrency, toCurrencies, amount, exitCode,
                   clock, saved, calls, ioFailed, procs, duration, timeAgo>>

\* outputJSON's json.MarshalIndent fails on NaN and the infinities.
JSONEncodeErr(record) ==
    ~IsFinite(record.Amount) \/ ~IsFinite(record.Result) \/ ~IsFinite(record.ExchangeRate)

\* A loop that stops the process at a target it does not find.
SkipTargetExits ==
    /\ pc = "loop" /\ idx <= Len(toCurrencies)
    /\ LET to == TrimSpace(toCurrencies[idx])
       IN  /\ to = <<>> \/ convertCurrency(amount, to, rates).err
           /\ stdout' = IF to = <<>> THEN stdout
                        ELSE Append(stdout, ReportError(jsonOutput, csvOutput, "not found", to))
           /\ pc' = IF to = <<>> THEN pc ELSE "exit"
           /\ exitCode' = IF to = <<>> THEN exitCode ELSE 1
    /\ idx' = idx + 1
    /\ UNCHANGED <<configFile, historyFile, history0, osArgs, stdin, cfg, jsonOutput,
                   csvOutput, args, fromCurrency, toCurrencies, amount, rates,
                   fetches, clock, saved, calls, ioFailed, procs, duration, timeAgo>>

\* One iteration of the loop over toCurrencies that skips its element.
SkipTarget ==
    /\ pc = "loop" /\ idx <= Len(toCurrencies)
    /\ LET to == TrimSpace(toCurrencies[idx])
       IN  /\ to = <<>> \/ convertCurrency(amount, to, rates).err
           /\ stdout' = IF to = <<>> THEN stdout
                        ELSE Append(stdout, ReportError(jsonOutput, csvOutput, "not found", to))
    /\ idx' = idx + 1
    /\ UNCHANGED <<configFile, historyFile, history0, osArgs, stdin, pc, cfg, jsonOutput,
                   csvOutput, args, fromCurrency, toCurrencies, amount, rates, exitCode,
                   fetches, clock, saved, calls, ioFailed, procs, duration, timeAgo>>

\* One iteration of the loop that converts: saveToHistory, then the output.
\* The text rendering (printResult) also prints formatTimeAgo of the
\* snapshot's age, which changes no state; formatTimeAgo is taken up in
\* SpecTime.
ConvertTarget ==
    /\ pc = "loop" /\ idx <= Len(toCurrencies)
    /\ LET to == TrimSpace(toCurrencies[idx])
           cv == convertCurrency(amount, to, rates)
       IN  /\ to # <<>> /\ ~cv.err
           /\ LET record == ConversionRecord(clock, fromCurrency, to, amount, cv.val,
                                             Lookup(rates.Rates, to), rates.TimeLastUpdated)
              IN  /\ \E wr \in WriteOutcomes :
                        /\ historyFile' = saveToHistory(historyFile, record, wr)
                        /\ saved' = IF SaveWrites(record, wr) THEN Append(saved, record)
                                    ELSE saved
                        /\ ioFailed' = (ioFailed \/ ~SaveWrites(record, wr))
                  /\ calls' = calls + 1
                  /\ clock' = clock + 1
                  /\ IF jsonOutput /\ JSONEncodeErr(record)
                     THEN /\ stdout' = Append(stdout, outputError("json encode", <<>>, TRUE))
                          /\ pc' = "exit"
                          /\ exitCode' = 1
                          /\ idx' = idx
                     ELSE /\ stdout' = Append(stdout,
                                 Ev("result", RenderFmt(jsonOutput, csvOutput), "", to, record))
                          /\ pc' = pc
                          /\ exitCode' = exitCode
                          /\ idx' = idx + 1
    /\ UNCHANGED <<configFile, history0, osArgs, stdin, cfg, jsonOutput, csvOutput, args,
                   fromCurrency, toCurrencies, amount, rates, fetches, procs, duration,
                   timeAgo>>

\* The loop is over: main returns.
Return ==
    /\ pc = "loop" /\ idx > Len(toCurrencies)
    /\ pc' = "exit"
    /\ exitCode' = 0
    /\ UNCHANGED <<configFile, historyFile, history0, osArgs, stdin, cfg, jsonOutput,
                   csvOutput, args, fromCurrency, toCurrencies, amount, rates, idx,
                   stdout, fetches, clock, saved, calls, ioFailed, procs, duration,
                   timeAgo>>

\* An invocation of saveToHistory: pc is "idle" before it, "read" between its
\* read and its write, "done" after; history is its local slice, record its
\* record; seen tells that the other invocation was over when this one read
\* the file, wrote that this one rewrote the file.
IdleProc == [pc |-> "idle", history |-> <<>>, record |-> ZeroRecord,
             seen |-> FALSE, wrote |-> FALSE]
IdleProcs == [p \in {1, 2} |-> IdleProc]

\* The state before a run, but for the two files.
InitRun ==
    /\ osArgs = <<>> /\ stdin = <<>> /\ pc = "start"
    /\ cfg = DefaultConfig /\ jsonOutput = FALSE /\ csvOutput = FALSE
    /\ args = <<>> /\ fromCurrency = <<>> /\ toCurrencies = <<>>
    /\ amount = Fin(0) /\ rates = NoRates /\ idx = 1
    /\ stdout = <<>> /\ exitCode = 0 /\ fetches = 0
    /\ clock = 1 /\ saved = <<>> /\ calls = 0 /\ ioFailed = FALSE
    /\ procs = IdleProcs
    /\ duration = 0 /\ timeAgo = formatTimeAgo(0)

MainConfigFiles ==
    {[kind |-> "absent", f |-> NoFields],
     ObjectFile([NoFields EXCEPT !.output_format = JStr(Str("JSON"))]),
     ObjectFile([NoFields EXCEPT !.output_format = JStr(Str("csv")),
                                 !.default_from = JStr(Str("e"))]),
     ObjectFile([NoFields EXCEPT !.output_format = JStr(Str("xml")),
                                 !.default_to = JStr(<<"e", ",", "r">>)])}

MainHistoryFiles ==
    {AbsentFile, TornFile, ArrayFile(<<GoodElem(0, Str("R"))>>),
     ArrayFile(<<GoodElem(0, Str("R")), SoftBadElem(0, Str("E"))>>),
     ArrayFile(<<GoodElem(0, Str("R")), HardBadElem(0, Str("E")), GoodElem(0, Str("X"))>>)}

Init ==
    /\ configFile \in MainConfigFiles
    /\ historyFile \in MainHistoryFiles
    /\ history0 = historyFile
    /\ InitRun

Next ==
    \/ Start(ArgLists)
    \/ FetchFail
    \/ FetchOk
    \/ SkipTarget
    \/ ConvertTarget
    \/ Return

Spec == Init /\ [][Next]_vars

----------------------------------------------------------------------------
(* Properties of a run of main (Spec). *)

Looping == pc \in {"loop", "exit"} /\ fetches = 1 /\ ~(stdout # <<>> /\ stdout[Len(stdout)].msg = "fetch")

\* The targets the loop has gone past, trimmed.
Visited == [i \in 1..(idx - 1) |-> TrimSpace(toCurrencies[i])]

InTable(t) == t # <<>> /\ t \in DOMAIN rates.Rates
IsResult(e) == e.k = "result"
IsError(e) == e.k = "error"
CodeOf(e) == e.code
ToOf(r) == r.ToCurrency

MapSeq(sq, Op(_)) == [i \in DOMAIN sq |-> Op(sq[i])]

\* The history the file decodes to (empty when it does not decode at all).
Stored(file) == ReadHistory(file)

LastEvent == stdout[Len(stdout)]

EarlyExit ==
    /\ pc = "exit" /\ exitCode = 1 /\ stdout # <<>>
    /\ IsError(LastEvent) /\ LastEvent.msg \in {"bad amount", "arg count", "fetch"}

\* C2, state part: a target missing from the rate table has an error naming
\* it and neither a result nor a history record; results and records are of
\* targets found in the table; a run that ends on a bad amount, a wrong
\* argument count or a failed fetch has left the history file as it was.
C2_State ==
    /\ Looping =>
          \A i \in DOMAIN Visited :
              LET t == Visited[i] IN
              (t # <<>> /\ ~InTable(t)) =>
                  /\ \E k \in DOMAIN stdout :
                        IsError(stdout[k]) /\ stdout[k].msg = "not found" /\ stdout[k].code = t
                  /\ \A k \in DOMAIN stdout : IsResult(stdout[k]) => stdout[k].code # t
                  /\ \A k \in DOMAIN saved : saved[k].ToCurrency # t
    /\ \A k \in DOMAIN stdout : IsResult(stdout[k]) => InTable(stdout[k].code)
    /\ \A k \in DOMAIN saved : InTable(saved[k].ToCurrency)
    /\ EarlyExit => historyFile = history0 /\ calls = 0

\* C2, action part: a step changes the history file only while the loop is
\* at a target that is in the fetched rate table.
C2_Step ==
    historyFile' # historyFile =>
        /\ pc = "loop" /\ fetches = 1 /\ idx <= Len(toCurrencies)
        /\ InTable(TrimSpace(toCurrencies[idx]))

\* C2: in every run of main the history file is changed only by a conversion
\* whose target is in the fetched rate table; a missing target yields an error
\* naming it and neither a result nor a record; a run ending on a bad amount,
\* a wrong argument count or a failed fetch leaves the file unchanged.
C2_HistoryOnlyByFoundTarget == [](C2_State) /\ [][C2_Step]_vars

\* A finished run that reported a missing target and changed the history file.
C2_Witness ==
    /\ pc = "exit" /\ historyFile # history0
    /\ \E k \in DOMAIN stdout : IsError(stdout[k]) /\ stdout[k].msg = "not found"

\* The targets of the visited part of the list that are in the rate table.
FoundSoFar == SelectSeq(Visited, InTable)

C3_Body ==
    /\ MapSeq(SelectSeq(stdout, IsResult), CodeOf) = FoundSoFar
    /\ MapSeq(saved, ToOf) = FoundSoFar
    /\ Stored(historyFile) = Stored(history0) \o saved
    /\ \A i \in DOMAIN Visited :
          (Visited[i] # <<>> /\ ~InTable(Visited[i])) =>
              \E k \in DOMAIN stdout :
                  IsError(stdout[k]) /\ stdout[k].msg = "not found"
                                     /\ stdout[k].code = Visited[i]
    /\ pc = "exit" => idx = Len(toCurrencies) + 1 /\ exitCode = 0

Structured == jsonOutput \/ csvOutput

\* A run in JSON or CSV mode that reported an error and is over.
C4_ErrorReported == Structured /\ pc = "exit" /\ \E k \in DOMAIN stdout : IsError(stdout[k])

\* C4: in JSON or CSV mode every error the program reports is the structured
\* payload, not colored text, and the process exits with a nonzero code.
C4_StructuredErrors ==
    Structured =>
        /\ \A k \in DOMAIN stdout : IsError(stdout[k]) => stdout[k].fmt # "text"
        /\ C4_ErrorReported => exitCode # 0

HasFlag(f) == \E i \in DOMAIN osArgs : osArgs[i] = f

\* The mode the priority rule selects.
ExpectedFmt ==
    IF HasFlag(FlagJSON) THEN "json"
    ELSE IF HasFlag(FlagCSV) THEN "csv"
    ELSE IF cfg.OutputFormat = Str("json") THEN "json"
    ELSE IF cfg.OutputFormat = Str("csv") THEN "csv"
    ELSE "text"

\* C6: every result is rendered in the one mode chosen by the priority
\* flags > config > text: JSON if --json is given (also next to --csv), else
\* CSV if --csv is given, else the config's format when it is json or csv,
\* else text.
C6_ModePriority ==
    \A k \in DOMAIN stdout : IsResult(stdout[k]) => stdout[k].fmt = ExpectedFmt

\* Both flags next to a config that asks for CSV: the result is JSON.
C6_Witness ==
    /\ HasFlag(FlagJSON) /\ HasFlag(FlagCSV) /\ cfg.OutputFormat = Str("csv")
    /\ \E k \in DOMAIN stdout : IsResult(stdout[k]) /\ stdout[k].fmt = "json"

----------------------------------------------------------------------------
(* SpecArgs: main started with every argument list of up to MaxArgs words. *)

ArgWords == {FlagJSON, FlagCSV, FlagHistory, U, ListRXE, Str("5")}

RECURSIVE ListsOfLen(_)
ListsOfLen(n) ==
    IF n = 0 THEN {<<>>}
    ELSE {Append(l, w) : l \in ListsOfLen(n - 1), w \in ArgWords}

AllArgLists == UNION {ListsOfLen(n) : n \in 0..MaxArgs}

InitArgs ==
    /\ configFile = [kind |-> "absent", f |-> NoFields]
    /\ historyFile = ArrayFile(<<GoodElem(0, Str("R"))>>)
    /\ history0 = historyFile
    /\ InitRun

NextArgs ==
    \/ Start(AllArgLists)
    \/ FetchFail
    \/ FetchOk
    \/ SkipTarget
    \/ ConvertTarget
    \/ Return

SpecArgs == InitArgs /\ [][NextArgs]_vars

NotFlag(w) == w # FlagJSON /\ w # FlagCSV

IsHistoryCommand == Len(osArgs) >= 1 /\ osArgs[1] = FlagHistory

Fetched == fetches > 0

C7_Body ==
    /\ args = SelectSeq(osArgs, NotFlag)
    /\ Len(args) = 0 =>
          /\ Len(stdin) = 3
          /\ (pc = "exit" /\ ~Fetched) => (exitCode = 1 /\ LastEvent.msg = "bad amount")
    /\ Len(args) = 3 =>
          /\ stdin = <<>>
          /\ fromCurrency = ToUpper(args[1])
          /\ (pc = "exit" /\ ~Fetched) => (exitCode = 1 /\ LastEvent.msg = "bad amount")
          /\ (pc # "exit" \/ Fetched) =>
                (toCurrencies = Split(ToUpper(args[2])) /\ amount = ParseFloat(args[3]).val)
    /\ Len(args) \notin {0, 3} =>
          /\ pc = "exit" /\ exitCode = 1 /\ ~Fetched
          /\ historyFile = history0 /\ calls = 0
          /\ stdin = <<>>
          /\ IsError(LastEvent) /\ LastEvent.msg = "arg count"

\* C7 as amended: for every argument list that does not start with --history,
\* the --json and --csv flags are removed wherever they occur, leaving the
\* other arguments in their order; the run prompts when none remain, takes
\* the command-line path when three remain, and for any other count reports
\* an error and exits with code 1 without a fetch or a change of the history
\* file.
C7_FlagsStripped == (pc # "start" /\ ~IsHistoryCommand) => C7_Body

\* C7 as stated: the same of every argument list.
C7_Original == pc # "start" => C7_Body

\* A flag between the positional arguments: three remain and the run is in
\* the conversion loop.
C7_Witness ==
    /\ Len(osArgs) = 4 /\ osArgs[2] \in {FlagJSON, FlagCSV}
    /\ Len(args) = 3 /\ pc = "loop"

----------------------------------------------------------------------------
(* SpecCfg: loadConfig applied to every content of config.json. *)

InitCfg ==
    /\ configFile \in ConfigFiles
    /\ historyFile = AbsentFile
    /\ history0 = historyFile
    /\ InitRun

LoadConfig ==
    /\ pc = "start"
    /\ cfg' = loadConfig(configFile)
    /\ pc' = "exit"
    /\ UNCHANGED <<configFile, historyFile, history0, osArgs, stdin, jsonOutput,
                   csvOutput, args, fromCurrency, toCurrencies, amount, rates, idx,
                   stdout, exitCode, fetches, clock, saved, calls, ioFailed, procs,
                   duration, timeAgo>>

NextCfg == LoadConfig

SpecCfg == InitCfg /\ [][NextCfg]_vars

WrongType(jv) == jv.j = "num"

\* The file is missing, unreadable, not JSON, not an object, or an object
\* with a field of the wrong type.
Malformed(file) ==
    \/ file.kind # "object"
    \/ WrongType(file.f.default_from)
    \/ WrongType(file.f.default_to)
    \/ WrongType(file.f.output_format)

\* C8: whenever config.json is missing, unreadable or malformed, loadConfig
\* returns exactly the hardcoded defaults; no field of a malformed file
\* reaches the returned config.
C8_MalformedGivesDefaults ==
    (pc = "exit" /\ Malformed(configFile)) => cfg = DefaultConfig

----------------------------------------------------------------------------
(* SpecHist: saveToHistory called up to MaxCalls times on a history file,  *)
(* and showHistory.                                                        *)

InitHist ==
    /\ configFile = [kind |-> "absent", f |-> NoFields]
    /\ historyFile \in HistoryFiles
    /\ history0 = historyFile
    /\ InitRun

SaveCall ==
    /\ calls < MaxCalls
    /\ \E to \in {Str("R"), Str("E")}, amt \in {Fin(1), NaN}, wr \in WriteOutcomes :
          LET record == ConversionRecord(clock, Str("U"), to, amt, Mul(amt, Fin(2)), Fin(2), 1)
          IN  /\ historyFile' = saveToHistory(historyFile, record, wr)
              /\ saved' = IF SaveWrites(record, wr) THEN Append(saved, record) ELSE saved
              /\ ioFailed' = (ioFailed \/ ~SaveWrites(record, wr))
    /\ calls' = calls + 1
    /\ clock' = clock + 1
    /\ pc' = "saved"
    /\ stdout' = <<>>
    /\ UNCHANGED <<configFile, history0, osArgs, stdin, cfg, jsonOutput, csvOutput, args,
                   fromCurrency, toCurrencies, amount, rates, idx, exitCode, fetches,
                   procs, duration, timeAgo>>

ShowCall ==
    /\ pc # "shown"
    /\ stdout' = showHistory(historyFile)
    /\ pc' = "shown"
    /\ UNCHANGED <<configFile, historyFile, history0, osArgs, stdin, cfg, jsonOutput,
                   csvOutput, args, fromCurrency, toCurrencies, amount, rates, idx,
                   exitCode, fetches, clock, saved, calls, ioFailed, procs, duration,
                   timeAgo>>

NextHist == SaveCall \/ ShowCall

SpecHist == InitHist /\ [][NextHist]_vars

\* The history file the calls started from is absent or empty.
Fresh == history0 \in {AbsentFile, EmptyFile, ArrayFile(<<>>)}

\* The listing of the records r, most recent first, and their count.
Listing(r) ==
    <<Ev("header", "text", "history", <<>>, ZeroRecord)>>
    \o [i \in 1..Len(r) |-> Ev("record", "text", "", <<>>, r[Len(r) + 1 - i])]
    \o <<CountLine(Len(r))>>

C1_Body ==
    /\ Len(saved) = calls
    /\ Stored(historyFile) = saved
    /\ pc = "shown" => stdout = Listing(saved)

\* C1 as amended: starting from an empty or absent history file, after N >= 1
\* successful saveToHistory calls the file holds exactly the N records in
\* call order, and showHistory prints them most recent first, followed by
\* the count N.
C1_AppendThenList == (Fresh /\ ~ioFailed /\ calls >= 1) => C1_Body

\* C1 as stated: the same for every N, N = 0 included.
C1_Original == (Fresh /\ ~ioFailed) => C1_Body

\* Three successful calls, with different records, then the listing.
C1_Witness ==
    /\ Fresh /\ ~ioFailed /\ calls = 3 /\ pc = "shown"
    /\ saved[1].ToCurrency # saved[3].ToCurrency

\* The file the first call found could not be read or parsed without error.
Unparsed(file) == ReadFileErr(file) \/ UnmarshalHistory(file).err

\* C10: when the file saveToHistory finds cannot be read or parsed as an
\* array of records, its content counts as an empty history: after the call
\* (which rewrote the file) the file is an array of exactly one record, the
\* new one.
C10_UnparsedCountsAsEmpty ==
    (calls = 1 /\ Len(saved) = 1 /\ Unparsed(history0)) =>
        (historyFile.kind = "array" /\ Stored(historyFile) = <<saved[1]>>)

----------------------------------------------------------------------------
(* SpecRace: two invocations of saveToHistory on the same file, each a     *)
(* read of the file followed, later, by a rewrite of it.                   *)

Other(p) == 3 - p

\* A write step that reads the file again.
HeldSliceFresh(p) == ReadHistory(historyFile)

\* The slice an invocation appends to: the one it read.
HeldSlice(p) == procs[p].history

InitRace ==
    /\ configFile = [kind |-> "absent", f |-> NoFields]
    /\ historyFile \in HistoryFiles
    /\ history0 = historyFile
    /\ InitRun

\* The record is built and the file read and decoded.
RaceRead(p) ==
    /\ procs[p].pc = "idle"
    /\ \E amt \in {Fin(1), Fin(5)} :
          procs' = [procs EXCEPT ![p] =
                      [pc |-> "read",
                       history |-> ReadHistory(historyFile),
                       record |-> ConversionRecord(clock, Str("U"),
                                      IF p = 1 THEN Str("R") ELSE Str("E"),
                                      amt, Mul(amt, Fin(2)), Fin(2), 1),
                       seen |-> procs[Other(p)].pc = "done",
                       wrote |-> FALSE]]
    /\ clock' = clock + 1
    /\ UNCHANGED <<configFile, historyFile, history0, osArgs, stdin, pc, cfg, jsonOutput,
                   csvOutput, args, fromCurrency, toCurrencies, amount, rates, idx,
                   stdout, exitCode, fetches, saved, calls, ioFailed, duration, timeAgo>>

\* The record is appended to the slice and the file rewritten.
RaceWrite(p) ==
    /\ procs[p].pc = "read"
    /\ \E wr \in WriteOutcomes :
          LET h == AppendRecord(HeldSlice(p), procs[p].record)
              ok == ~MarshalErr(h) /\ wr = "ok"
          IN  /\ historyFile' = IF MarshalErr(h) THEN historyFile
                                ELSE WriteFile(historyFile, MarshalHistory(h), wr)
              /\ procs' = [procs EXCEPT ![p].pc = "done", ![p].wrote = ok]
              /\ saved' = IF ok THEN Append(saved, procs[p].record) ELSE saved
              /\ ioFailed' = (ioFailed \/ ~ok)
    /\ calls' = calls + 1
    /\ UNCHANGED <<configFile, history0, osArgs, stdin, pc, cfg, jsonOutput, csvOutput,
                   args, fromCurrency, toCurrencies, amount, rates, idx, stdout,
                   exitCode, fetches, clock, duration, timeAgo>>

NextRace == \E p \in {1, 2} : RaceRead(p) \/ RaceWrite(p)

SpecRace == InitRace /\ [][NextRace]_vars

BothAppended == \A p \in {1, 2} : procs[p].pc = "done" /\ procs[p].wrote

\* One invocation read the file after the other was over.
NoOverlap == \E p \in {1, 2} : procs[p].seen

\* C5: two invocations that both append: when they do not overlap the file
\* ends with both records, in the order of the calls, as two saveToHistory
\* calls in a row leave it; when they overlap it ends with the last writer's
\* record and without the other's.
C5_LastWriterWins ==
    BothAppended =>
        /\ Stored(historyFile)[Len(Stored(historyFile))] = saved[2]
        /\ NoOverlap =>
              /\ Stored(historyFile) = Stored(history0) \o saved
              /\ historyFile = saveToHistory(saveToHistory(history0, saved[1], "ok"),
                                             saved[2], "ok")
        /\ ~NoOverlap => Stored(historyFile) = Stored(history0) \o <<saved[2]>>

\* A lost update: both invocations rewrote the file, the first writer's
\* record is not in it.
C5_Witness ==
    /\ BothAppended
    /\ \A i \in DOMAIN Stored(historyFile) : Stored(historyFile)[i] # saved[1]
    /\ \E i \in DOMAIN Stored(historyFile) : Stored(historyFile)[i] = saved[2]

----------------------------------------------------------------------------
(* SpecTime: formatTimeAgo applied to every duration of 0..MaxMinutes.     *)

InitTime ==
    /\ configFile = [kind |-> "absent", f |-> NoFields]
    /\ historyFile = AbsentFile
    /\ history0 = historyFile
    /\ InitRun

Elapse ==
    /\ duration < MaxMinutes
    /\ duration' = duration + 1
    /\ timeAgo' = formatTimeAgo(duration')
    /\ UNCHANGED <<configFile, historyFile, history0, osArgs, stdin, pc, cfg, jsonOutput,
                   csvOutput, args, fromCurrency, toCurrencies, amount, rates, idx,
                   stdout, exitCode, fetches, clock, saved, calls, ioFailed, procs>>

NextTime == Elapse

SpecTime == InitTime /\ [][NextTime]_vars

Rank(unit) ==
    CASE unit = "now" -> 0 [] unit = "minute" -> 1 [] unit = "hour" -> 2 [] OTHER -> 3

Hour == 60
Day == 24 * Hour

C9_Small ==
    /\ duration = 0 => timeAgo.unit = "now"
    /\ (1 <= duration /\ duration < Hour) =>
          (timeAgo.unit = "minute" /\ timeAgo.n = duration)
    /\ duration > 0 => Rank(formatTimeAgo(duration - 1).unit) <= Rank(timeAgo.unit)

\* C9 as amended: 0 minutes is "just now"; 1 to 59 minutes is the minute
\* bucket with N the minutes; from 1 hour up to, but not including, 25 hours
\* is the hour bucket with N the whole hours (24 h 30 min is "24 hours");
\* 25 hours or more is the day bucket with N the whole days; and the bucket
\* never moves back to a smaller unit as the duration grows.
C9_Buckets ==
    /\ C9_Small
    /\ (Hour <= duration /\ duration < Day + Hour) =>
          (timeAgo.unit = "hour" /\ timeAgo.n = duration \div Hour)
    /\ duration >= Day + Hour =>
          (timeAgo.unit = "day" /\ timeAgo.n = duration \div Day)

\* C9 as stated: up to 24 hours the hour bucket, more than 24 hours the day
\* bucket.
C9_Original ==
    /\ C9_Small
    /\ (Hour <= duration /\ duration <= Day) =>
          (timeAgo.unit = "hour" /\ timeAgo.n = duration \div Hour)
    /\ duration > Day =>
          (timeAgo.unit = "day" /\ timeAgo.n = duration \div Day)

\* 24 hours and 30 minutes: still the hour bucket, N = 24.
C9_Witness == duration = Day + 30 /\ timeAgo = Ago("hour", 24, "many")

====
